---------------------------- MODULE Spec2Model ----------------------------
(***************************************************************************)
(* The route-ordering engine of src/route_optimizer.py: a RouteOptimizer   *)
(* object built over a catalog (spots_df), and one call of one of its      *)
(* methods.  optimize_route is followed statement by statement; the        *)
(* ranking methods, calculate_distance and calculate_route_stats are       *)
(* single steps.  The second RouteOptimizer class, the one of              *)
(* src/streamlit_app.py, is modelled by what its optimize_route computes.  *)
(*                                                                         *)
(* Coordinates are integers in units of 0.01 degree.  Durations are        *)
(* minutes and recommendation scores are integers, as in the catalog.      *)
(* A float the code computes is kept as an exact fraction (efficiency) or  *)
(* as an integer that orders the same way (distance, see Hubeny).          *)
(***************************************************************************)
EXTENDS Integers, Sequences, FiniteSets

VARIABLES
    spots_df,         \* self.spots_df: the catalog, a sequence of rows
    op,               \* the method being called
    selected_spots,   \* the list argument of the call (caller's object); the
                      \* route argument of calculate_route_stats
    user_location,    \* optimize_route's user_location / the lat, lon argument
    pc,               \* position in the called method
    remaining_spots,  \* optimize_route local
    optimized_route,  \* optimize_route local
    current_spot,     \* optimize_route local / calculate_distance_ranking argument
    time_ranking,     \* last result of calculate_time_decrease_rate_ranking
    distance_ranking, \* last result of a distance ranking
    scores,           \* optimize_route local
    result,           \* the list optimize_route returned
    rank_calls,       \* number of ranking computations made during the call
    steps,            \* picks made so far: [seed: at lines 184-206, loop: loop iterations]
    remaining_is_copy, \* remaining_spots is a list object of its own, not the caller's
    coords,           \* the arguments of a direct call of calculate_distance
    distance,         \* what that call returned
    stats             \* the dict calculate_route_stats returned

vars == <<spots_df, op, selected_spots, user_location, pc, remaining_spots,
          optimized_route, current_spot, time_ranking, distance_ranking,
          scores, result, rank_calls, steps, remaining_is_copy, coords,
          distance, stats>>

-----------------------------------------------------------------------------
(* Bounds of the model *)

\* longest list handed to a method
MaxSelected == 3

\* spot names (the 'スポット名' column); only equality of names matters
Names == {"A", "B", "C", "D"}
NameOrder == <<"A", "B", "C", "D">>

\* Python's None, for current_spot
None == "None"
\* Python's None, for user_location
NoLocation == [none |-> TRUE]

\* the attribute rows a catalog entry may carry: 緯度, 経度, 最低所要時間, おすすめ度
Profiles == <<
    [lat |-> 3330, lon |-> 13090, dur |-> 60, score |-> 5],
    [lat |-> 3331, lon |-> 13091, dur |-> 30, score |-> 3],
    [lat |-> 3329, lon |-> 13089, dur |-> 90, score |-> 4] >>

\* user locations a caller may supply ({'lat': .., 'lon': ..})
Locations == { [lat |-> 3329, lon |-> 13089], [lat |-> 3330, lon |-> 13091] }

-----------------------------------------------------------------------------
(* Catalog access: self.spots_df[self.spots_df['スポット名'] == spot].iloc[0] *)

\* the rows whose name column equals spot
RowsNamed(spot) == SelectSeq(spots_df, LAMBDA r : r.name = spot)

\* .iloc[0] succeeds (otherwise it raises IndexError)
Found(spot) == Len(RowsNamed(spot)) > 0

\* .iloc[0]: the first matching row
spot_data(spot) == RowsNamed(spot)[1]

\* every lookup of a loop over spots succeeds
AllFound(spots) == \A i \in 1..Len(spots) : Found(spots[i])

-----------------------------------------------------------------------------
(* calculate_distance: Hubeny's formula on the WGS84 ellipsoid *)

\* M * radians(0.01 degree), in decimetres, at mean latitude latsum/2: the
\* meridional radius of curvature of line 44 with the constants of lines
\* 39-41.  Over the latitudes of the model it is 11090.96 .. 11091.00.
MeridianStep(latsum) == 11091

\* N * cos(P) * radians(0.01 degree), in decimetres, at mean latitude
\* P = latsum/2: lines 47 and 50 with the constants of lines 39-41
\* (9314.63, 9314.10, 9313.57, 9313.04, 9312.50 before rounding).
ParallelStep(latsum) ==
    CASE latsum = 6658 -> 9315
      [] latsum = 6659 -> 9314
      [] latsum = 6660 -> 9314
      [] latsum = 6661 -> 9313
      [] latsum = 6662 -> 9313

\* a distance whose radii of curvature are taken at the latitude of the first
\* point instead of the mean latitude (P = lat1_rad)
calculate_distance_at_first_latitude(lat1, lon1, lat2, lon2) ==
    LET P2 == lat1 + lat1
        Dy == lat1 - lat2
        Dx == lon1 - lon2
        M  == MeridianStep(P2)
        NcosP == ParallelStep(P2)
    IN  (Dy * M) * (Dy * M) + (Dx * NcosP) * (Dx * NcosP)

\* The code returns sqrt(r) / 1000 for the radicand r of line 50.  The model
\* returns r itself, in square decimetres: sqrt and the division are strictly
\* increasing, and on the coordinates of the model two distances compare
\* (less, equal, greater) exactly as their radicands here do, so every
\* comparison and every sort of distances is the one the code makes.
calculate_distance(lat1, lon1, lat2, lon2) ==
    LET P2 == lat1 + lat2          \* twice the mean latitude
        Dy == lat1 - lat2
        Dx == lon1 - lon2
        M  == MeridianStep(P2)
        NcosP == ParallelStep(P2)
    IN  (Dy * M) * (Dy * M) + (Dx * NcosP) * (Dx * NcosP)

-----------------------------------------------------------------------------
(* Python dicts, sorted(), enumerate() *)

\* a sort key: the float num / den, kept exact
Key(num, den) == [num |-> num, den |-> den]

\* k1 < k2 as floats (den > 0)
KeyLess(k1, k2) == k1.num * k2.den < k2.num * k1.den

\* item x (a <<spot, key>> pair) sorts strictly before item y
SortsBefore(x, y, reverse) ==
    IF reverse THEN KeyLess(y[2], x[2]) ELSE KeyLess(x[2], y[2])

\* one insertion of a stable sort: x goes before the first item it sorts
\* strictly before, and after every item of equal key
InsertItem(s, x, reverse) ==
    LET later == {i \in 1..Len(s) : SortsBefore(x, s[i], reverse)}
        pos == IF later = {} THEN Len(s) + 1
               ELSE CHOOSE i \in later : \A j \in later : i <= j
    IN  SubSeq(s, 1, pos - 1) \o <<x>> \o SubSeq(s, pos, Len(s))

\* sorted(items, key=lambda x: x[1], reverse=reverse): stable, also reversed
RECURSIVE sorted(_, _)
sorted(items, reverse) ==
    IF Len(items) = 0 THEN <<>>
    ELSE InsertItem(sorted(SubSeq(items, 1, Len(items) - 1), reverse),
                    items[Len(items)], reverse)

\* the empty dict
EmptyDict == [x \in {} |-> 0]

\* for rank, (spot, _) in enumerate(sorted_spots, 1): ranking[spot] = rank
RankingOf(sorted_spots) ==
    [spot \in {sorted_spots[i][1] : i \in 1..Len(sorted_spots)} |->
        CHOOSE i \in 1..Len(sorted_spots) :
            /\ sorted_spots[i][1] = spot
            /\ \A j \in 1..Len(sorted_spots) : sorted_spots[j][1] = spot => j <= i]

\* a min that keeps the last of several least values (<= for <)
LastMin(spots, f) ==
    LET best == {i \in 1..Len(spots) : \A j \in 1..Len(spots) : f[spots[i]] <= f[spots[j]]}
    IN  spots[CHOOSE i \in best : \A j \in best : i >= j]

\* min(scores.items(), key=lambda x: x[1])[0] for a dict filled in the order
\* of spots: the first spot of the list with the least value
FirstMin(spots, f) ==
    LET best == {i \in 1..Len(spots) : \A j \in 1..Len(spots) : f[spots[i]] <= f[spots[j]]}
    IN  spots[CHOOSE i \in best : \A j \in best : i <= j]

\* a max that keeps the last of several greatest values (>= for >)
LastMax(spots, f) ==
    LET best == {i \in 1..Len(spots) : \A j \in 1..Len(spots) : f[spots[i]] >= f[spots[j]]}
    IN  spots[CHOOSE i \in best : \A j \in best : i >= j]

\* max(spots, key=f): the first spot of the list with the greatest value
FirstMax(spots, f) ==
    LET best == {i \in 1..Len(spots) : \A j \in 1..Len(spots) : f[spots[i]] >= f[spots[j]]}
    IN  spots[CHOOSE i \in best : \A j \in best : i <= j]

\* a remove that drops the head of the list whatever x is (pop(0))
RemoveHead(spots, x) == SubSeq(spots, 2, Len(spots))

\* list.remove(x): the list without its first x
Remove(spots, x) ==
    LET at == CHOOSE i \in 1..Len(spots) :
                  spots[i] = x /\ \A j \in 1..(i - 1) : spots[j] # x
    IN  SubSeq(spots, 1, at - 1) \o SubSeq(spots, at + 1, Len(spots))

-----------------------------------------------------------------------------
(* RankingEngine *)

\* efficiency = spot_data['おすすめ度'] / spot_data['最低所要時間']
efficiency(spot) == Key(spot_data(spot).score, spot_data(spot).dur)

\* a time ranking sorted without reverse=True (least efficient first)
calculate_time_ranking_ascending(spots) ==
    LET time_efficiency == [i \in 1..Len(spots) |-> <<spots[i], efficiency(spots[i])>>]
        sorted_spots == sorted(time_efficiency, FALSE)
    IN  RankingOf(sorted_spots)

\* calculate_time_decrease_rate_ranking, when every lookup succeeds
calculate_time_decrease_rate_ranking(spots) ==
    LET time_efficiency == [i \in 1..Len(spots) |-> <<spots[i], efficiency(spots[i])>>]
        sorted_spots == sorted(time_efficiency, TRUE)
    IN  RankingOf(sorted_spots)

\* calculate_distance_ranking_from_location, when every lookup succeeds
calculate_distance_ranking_from_location(lat, lon, remaining) ==
    LET distances == [i \in 1..Len(remaining) |->
            <<remaining[i],
              Key(calculate_distance(lat, lon, spot_data(remaining[i]).lat,
                                     spot_data(remaining[i]).lon), 1)>>]
        sorted_spots == sorted(distances, FALSE)
    IN  RankingOf(sorted_spots)

\* a distance ranking sorted with reverse=True (farthest first)
calculate_distance_ranking_farthest(current, remaining) ==
    IF current = None
    THEN [spot \in {remaining[i] : i \in 1..Len(remaining)} |-> 1]
    ELSE LET current_spot_data == spot_data(current)
             distances == [i \in 1..Len(remaining) |->
                 <<remaining[i],
                   Key(calculate_distance(current_spot_data.lat, current_spot_data.lon,
                                          spot_data(remaining[i]).lat,
                                          spot_data(remaining[i]).lon), 1)>>]
             sorted_spots == sorted(distances, TRUE)
         IN  RankingOf(sorted_spots)

\* calculate_distance_ranking, when every lookup it makes succeeds
calculate_distance_ranking(current, remaining) ==
    IF current = None
    THEN [spot \in {remaining[i] : i \in 1..Len(remaining)} |-> 1]
    ELSE LET current_spot_data == spot_data(current)
             distances == [i \in 1..Len(remaining) |->
                 <<remaining[i],
                   Key(calculate_distance(current_spot_data.lat, current_spot_data.lon,
                                          spot_data(remaining[i]).lat,
                                          spot_data(remaining[i]).lon), 1)>>]
             sorted_spots == sorted(distances, FALSE)
         IN  RankingOf(sorted_spots)

\* the lookups calculate_distance_ranking makes all succeed
DistanceRankingLookupsOk(current, remaining) ==
    current = None \/ (Found(current) /\ AllFound(remaining))

-----------------------------------------------------------------------------
(* The inputs of a call *)

\* RouteOptimizer(spots_df): a catalog holds, in the order of NameOrder, one
\* row for each name f gives a profile (0: the name is not in the catalog)
CatalogOf(f) ==
    LET all == [i \in 1..Len(NameOrder) |-> <<NameOrder[i], f[NameOrder[i]]>>]
        kept == SelectSeq(all, LAMBDA e : e[2] # 0)
    IN  [i \in 1..Len(kept) |->
            [name  |-> kept[i][1],
             lat   |-> Profiles[kept[i][2]].lat,
             lon   |-> Profiles[kept[i][2]].lon,
             dur   |-> Profiles[kept[i][2]].dur,
             score |-> Profiles[kept[i][2]].score]]

\* the row a name holds in every catalog of the model when the call never
\* looks that name up (such a row cannot influence the call): A, B and C hold
\* the first three profiles, D is not in the catalog
UnusedRow == [n \in Names |-> CASE n = "A" -> 1 [] n = "B" -> 2 [] n = "C" -> 3 [] OTHER -> 0]

\* the catalogs for a call that looks up the names of used: each used name
\* holds any profile or is missing
Catalogs(used) ==
    {CatalogOf(f) : f \in {g \in [Names -> 0..Len(Profiles)] :
                               \A n \in Names \ used : g[n] = UnusedRow[n]}}

\* lists of distinct names (a multiselect's value), the empty list included
SpotLists ==
    UNION {{l \in [1..n -> Names] : \A i, j \in 1..n : i # j => l[i] # l[j]}
              : n \in 0..MaxSelected}

Methods == {"optimize_route", "calculate_time_decrease_rate_ranking",
            "calculate_distance_ranking", "calculate_distance_ranking_from_location",
            "calculate_distance", "calculate_route_stats"}

\* the points a direct call of calculate_distance is given: the coordinates
\* of the catalog rows and of the user locations
Points == {[lat |-> Profiles[i].lat, lon |-> Profiles[i].lon] : i \in 1..Len(Profiles)}
              \cup Locations

\* no arguments: the call is not one of calculate_distance
NoCoords == [none |-> TRUE]

Init ==
    /\ op \in Methods
    /\ selected_spots \in IF op = "calculate_distance" THEN {<<>>} ELSE SpotLists
    /\ coords \in
         IF op = "calculate_distance"
         THEN {[lat1 |-> p.lat, lon1 |-> p.lon, lat2 |-> q.lat, lon2 |-> q.lon] :
                  p \in Points, q \in Points}
         ELSE {NoCoords}
    /\ user_location \in
         CASE op = "optimize_route" -> {NoLocation} \cup Locations
           [] op = "calculate_distance_ranking_from_location" -> Locations
           [] OTHER -> {NoLocation}
    /\ current_spot \in
         IF op = "calculate_distance_ranking" THEN {None} \cup Names ELSE {None}
    /\ spots_df \in Catalogs({selected_spots[i] : i \in 1..Len(selected_spots)}
                               \cup {current_spot})
    /\ pc = "entry"
    /\ remaining_spots = <<>>
    /\ optimized_route = <<>>
    /\ time_ranking = EmptyDict
    /\ distance_ranking = EmptyDict
    /\ scores = EmptyDict
    /\ result = <<>>
    /\ rank_calls = 0
    /\ steps = [seed |-> 0, loop |-> 0]
    /\ remaining_is_copy = FALSE
    /\ distance = None
    /\ stats = EmptyDict

-----------------------------------------------------------------------------
(* The ranking methods called on their own *)

\* lines 80-104
TimeRanking ==
    /\ pc = "entry" /\ op = "calculate_time_decrease_rate_ranking"
    /\ IF AllFound(selected_spots)
       THEN /\ time_ranking' = calculate_time_decrease_rate_ranking(selected_spots)
            /\ rank_calls' = rank_calls + 1
            /\ pc' = "returned"
       ELSE /\ pc' = "raised"
            /\ UNCHANGED <<time_ranking, rank_calls>>
    /\ UNCHANGED <<spots_df, op, selected_spots, user_location, coords, distance, stats,
                   remaining_is_copy, remaining_spots,
                   optimized_route, current_spot, distance_ranking, scores, result, steps>>

\* lines 106-137
DistanceRanking ==
    /\ pc = "entry" /\ op = "calculate_distance_ranking"
    /\ IF DistanceRankingLookupsOk(current_spot, selected_spots)
       THEN /\ distance_ranking' = calculate_distance_ranking(current_spot, selected_spots)
            /\ rank_calls' = rank_calls + 1
            /\ pc' = "returned"
       ELSE /\ pc' = "raised"
            /\ UNCHANGED <<distance_ranking, rank_calls>>
    /\ UNCHANGED <<spots_df, op, selected_spots, user_location, coords, distance, stats,
                   remaining_is_copy, remaining_spots,
                   optimized_route, current_spot, time_ranking, scores, result, steps>>

\* lines 139-165
DistanceRankingFromLocation ==
    /\ pc = "entry" /\ op = "calculate_distance_ranking_from_location"
    /\ IF AllFound(selected_spots)
       THEN /\ distance_ranking' = calculate_distance_ranking_from_location(
                                       user_location.lat, user_location.lon, selected_spots)
            /\ rank_calls' = rank_calls + 1
            /\ pc' = "returned"
       ELSE /\ pc' = "raised"
            /\ UNCHANGED <<distance_ranking, rank_calls>>
    /\ UNCHANGED <<spots_df, op, selected_spots, user_location, coords, distance, stats,
                   remaining_is_copy, remaining_spots,
                   optimized_route, current_spot, time_ranking, scores, result, steps>>

\* lines 16-53 called on its own
Distance ==
    /\ pc = "entry" /\ op = "calculate_distance"
    /\ distance' = calculate_distance(coords.lat1, coords.lon1, coords.lat2, coords.lon2)
    /\ pc' = "returned"
    /\ UNCHANGED <<spots_df, op, selected_spots, user_location, coords, stats,
                   remaining_is_copy, remaining_spots, optimized_route, current_spot,
                   time_ranking, distance_ranking, scores, result, rank_calls, steps>>

-----------------------------------------------------------------------------
(* calculate_route_stats, lines 229-265 *)

\* the greatest k of lo..hi with k * k <= r
RECURSIVE Bisect(_, _, _)
Bisect(r, lo, hi) ==
    IF lo = hi THEN lo
    ELSE LET mid == (lo + hi + 1) \div 2
         IN  IF mid * mid <= r THEN Bisect(r, mid, hi) ELSE Bisect(r, lo, mid - 1)

\* math.sqrt of line 50 on a radicand in square decimetres: the distance in
\* decimetres, rounded down
Sqrt(r) == Bisect(r, 0, 46340)

\* round(num / den, ndigits) in units of the last digit kept, for the integer
\* num already scaled by 10^ndigits: to the nearest, a tie to the even one
Round(num, den) ==
    LET q == num \div den
        r == num % den
    IN  IF 2 * r < den THEN q
        ELSE IF 2 * r > den THEN q + 1
        ELSE IF q % 2 = 0 THEN q ELSE q + 1

\* the distance line 251 computes, in decimetres
Leg(spot, next_spot) ==
    Sqrt(calculate_distance(spot_data(spot).lat, spot_data(spot).lon,
                            spot_data(next_spot).lat, spot_data(next_spot).lon))

\* the totals when the loop also adds a leg from the last stop back to the
\* first (a round trip)
RECURSIVE route_totals_round_trip(_, _)
route_totals_round_trip(route, i) ==
    IF i = 0 THEN [time |-> 0, distance |-> 0, recommend_score |-> 0]
    ELSE LET before == route_totals_round_trip(route, i - 1)
             spot == route[i]
         IN  [time |-> before.time + spot_data(spot).dur,
              recommend_score |-> before.recommend_score + spot_data(spot).score,
              distance |-> before.distance + Leg(spot, route[(i % Len(route)) + 1])]

\* lines 239-256: total_time, total_distance and total_recommend_score after
\* the first i iterations of the loop (i counts from 1 here, from 0 in the
\* code: the code's i < len(route) - 1 is i < Len(route))
RECURSIVE route_totals(_, _)
route_totals(route, i) ==
    IF i = 0 THEN [time |-> 0, distance |-> 0, recommend_score |-> 0]
    ELSE LET before == route_totals(route, i - 1)
             spot == route[i]
         IN  [time |-> before.time + spot_data(spot).dur,
              recommend_score |-> before.recommend_score + spot_data(spot).score,
              distance |-> IF i < Len(route)
                           THEN before.distance + Leg(spot, route[i + 1])
                           ELSE before.distance]

\* lines 258-264: total_distance_km in units of 0.01 km, average_recommend_score
\* in units of 0.1, efficiency_score in units of 0.01
stats_dict(route, totals) ==
    [total_spots |-> Len(route),
     total_time_minutes |-> totals.time,
     total_distance_km |-> Round(totals.distance, 100),
     average_recommend_score |-> Round(10 * totals.recommend_score, Len(route)),
     efficiency_score |-> Round(100 * 60 * totals.recommend_score, totals.time)]

\* lines 229-265: {} for an empty route; IndexError for a stop the catalog
\* does not hold (every duration of the model is positive, so line 263
\* never divides by 0)
RouteStats ==
    /\ pc = "entry" /\ op = "calculate_route_stats"
    /\ IF Len(selected_spots) = 0
       THEN /\ stats' = EmptyDict
            /\ pc' = "returned"
       ELSE IF AllFound(selected_spots)
            THEN /\ stats' = stats_dict(selected_spots,
                                        route_totals(selected_spots, Len(selected_spots)))
                 /\ pc' = "returned"
            ELSE /\ pc' = "raised"
                 /\ UNCHANGED stats
    /\ UNCHANGED <<spots_df, op, selected_spots, user_location, coords, distance,
                   remaining_is_copy, remaining_spots, optimized_route, current_spot,
                   time_ranking, distance_ranking, scores, result, rank_calls, steps>>

-----------------------------------------------------------------------------
(* optimize_route, lines 167-227 *)

\* the guard of line 176 off by one (len(selected_spots) < 1)
TooShortOffByOne(spots) == Len(spots) < 1

\* line 176: len(selected_spots) <= 1
TooShort(spots) == Len(spots) <= 1

\* lines 176-177: a list of 0 or 1 spots is handed back as it is
EarlyReturn ==
    /\ pc = "entry" /\ op = "optimize_route"
    /\ TooShort(selected_spots)
    /\ result' = selected_spots
    /\ pc' = "returned"
    /\ UNCHANGED <<spots_df, op, selected_spots, user_location, coords, distance, stats,
                   remaining_is_copy, remaining_spots,
                   optimized_route, current_spot, time_ranking, distance_ranking,
                   scores, rank_calls, steps>>

\* lines 179-181 with remaining_spots = selected_spots for line 179: the
\* local name is bound to the caller's list object
BeginWithoutCopy ==
    /\ pc = "entry" /\ op = "optimize_route"
    /\ ~TooShort(selected_spots)
    /\ remaining_spots' = selected_spots
    /\ remaining_is_copy' = FALSE
    /\ optimized_route' = <<>>
    /\ current_spot' = None
    /\ pc' = "seed"
    /\ UNCHANGED <<spots_df, op, selected_spots, user_location, coords, distance, stats,
                   time_ranking, distance_ranking, scores, result, rank_calls, steps>>

\* lines 179-181: selected_spots.copy() is a new list object with the same
\* contents
Begin ==
    /\ pc = "entry" /\ op = "optimize_route"
    /\ ~TooShort(selected_spots)
    /\ remaining_spots' = selected_spots
    /\ remaining_is_copy' = TRUE
    /\ optimized_route' = <<>>
    /\ current_spot' = None
    /\ pc' = "seed"
    /\ UNCHANGED <<spots_df, op, selected_spots, user_location, coords, distance, stats,
                   time_ranking,
                   distance_ranking, scores, result, rank_calls, steps>>

\* a seeding that scores by distance alone (nearest spot first)
SeedRankDistanceOnly ==
    /\ pc = "seed"
    /\ user_location # NoLocation
    /\ IF AllFound(remaining_spots)
       THEN LET ranking_d == calculate_distance_ranking_from_location(
                                  user_location.lat, user_location.lon, remaining_spots)
                ranking_t == calculate_time_decrease_rate_ranking(remaining_spots)
            IN  /\ distance_ranking' = ranking_d
                /\ time_ranking' = ranking_t
                /\ scores' = [spot \in {remaining_spots[i] : i \in 1..Len(remaining_spots)} |->
                                 ranking_d[spot]]
                /\ rank_calls' = rank_calls + 2
                /\ pc' = "seed_pick"
       ELSE /\ pc' = "raised"
            /\ UNCHANGED <<distance_ranking, time_ranking, scores, rank_calls>>
    /\ UNCHANGED <<spots_df, op, selected_spots, user_location, coords, distance, stats,
                   remaining_is_copy, remaining_spots,
                   optimized_route, current_spot, result, steps>>

\* lines 184-193: with a location, both rankings over all candidates
SeedRank ==
    /\ pc = "seed"
    /\ user_location # NoLocation
    /\ IF AllFound(remaining_spots)
       THEN LET ranking_d == calculate_distance_ranking_from_location(
                                  user_location.lat, user_location.lon, remaining_spots)
                ranking_t == calculate_time_decrease_rate_ranking(remaining_spots)
            IN  /\ distance_ranking' = ranking_d
                /\ time_ranking' = ranking_t
                /\ scores' = [spot \in {remaining_spots[i] : i \in 1..Len(remaining_spots)} |->
                                 ranking_d[spot] + ranking_t[spot]]
                /\ rank_calls' = rank_calls + 2
                /\ pc' = "seed_pick"
       ELSE /\ pc' = "raised"
            /\ UNCHANGED <<distance_ranking, time_ranking, scores, rank_calls>>
    /\ UNCHANGED <<spots_df, op, selected_spots, user_location, coords, distance, stats,
                   remaining_is_copy, remaining_spots,
                   optimized_route, current_spot, result, steps>>

\* the caller's list once remaining_spots.remove(..) has left the local list
\* as new_remaining: remove changes the list object in place, so the caller
\* sees it exactly when both names are bound to one object
CallerListAfter(new_remaining) ==
    IF remaining_is_copy THEN selected_spots ELSE new_remaining

\* lines 195-197 without line 198: current_spot is left as it was
SeedPickWithoutCurrent ==
    /\ pc = "seed_pick"
    /\ LET first_spot == FirstMin(remaining_spots, scores)
       IN  /\ optimized_route' = Append(optimized_route, first_spot)
           /\ remaining_spots' = Remove(remaining_spots, first_spot)
    /\ selected_spots' = CallerListAfter(remaining_spots')
    /\ pc' = "loop"
    /\ UNCHANGED <<spots_df, op, user_location, coords, distance, stats,
                   remaining_is_copy, time_ranking, current_spot,
                   distance_ranking, scores, result, rank_calls>>
    /\ steps' = [steps EXCEPT !.seed = @ + 1]

\* lines 195-198
SeedPick ==
    /\ pc = "seed_pick"
    /\ LET first_spot == FirstMin(remaining_spots, scores)
       IN  /\ optimized_route' = Append(optimized_route, first_spot)
           /\ remaining_spots' = Remove(remaining_spots, first_spot)
           /\ current_spot' = first_spot
    /\ selected_spots' = CallerListAfter(remaining_spots')
    /\ pc' = "loop"
    /\ UNCHANGED <<spots_df, op, user_location, coords, distance, stats,
                   remaining_is_copy, time_ranking,
                   distance_ranking, scores, result, rank_calls>>
    /\ steps' = [steps EXCEPT !.seed = @ + 1]

\* a key that divides the score by the minimum duration (in 1/1000 per minute)
recommend_score_per_minute(spot) ==
    (spot_data(spot).score * 1000) \div spot_data(spot).dur

\* the key of line 202: self.spots_df[...]['おすすめ度'].iloc[0]
recommend_score(spot) == spot_data(spot).score

\* a seeding that skips the spots the catalog does not hold
SeedByScoreSkipMissing ==
    /\ pc = "seed"
    /\ user_location = NoLocation
    /\ LET present == SelectSeq(remaining_spots, Found)
       IN  IF Len(present) > 0
           THEN LET best_spot == FirstMax(present,
                                     [spot \in {present[i] : i \in 1..Len(present)} |->
                                         recommend_score(spot)])
                IN  /\ optimized_route' = Append(optimized_route, best_spot)
                    /\ remaining_spots' = Remove(present, best_spot)
                    /\ selected_spots' = CallerListAfter(remaining_spots')
                    /\ current_spot' = best_spot
                    /\ pc' = "loop"
                    /\ steps' = [steps EXCEPT !.seed = @ + 1]
           ELSE /\ pc' = "raised"
                /\ UNCHANGED <<optimized_route, remaining_spots, selected_spots,
                               current_spot, steps>>
    /\ UNCHANGED <<spots_df, op, user_location, coords, distance, stats,
                   remaining_is_copy, time_ranking,
                   distance_ranking, scores, result, rank_calls>>

\* lines 199-206: without a location, the highest recommendation score
SeedByScore ==
    /\ pc = "seed"
    /\ user_location = NoLocation
    /\ IF AllFound(remaining_spots)
       THEN LET best_spot == FirstMax(remaining_spots,
                                 [spot \in {remaining_spots[i] : i \in 1..Len(remaining_spots)} |->
                                     recommend_score(spot)])
            IN  /\ optimized_route' = Append(optimized_route, best_spot)
                /\ remaining_spots' = Remove(remaining_spots, best_spot)
                /\ selected_spots' = CallerListAfter(remaining_spots')
                /\ current_spot' = best_spot
                /\ pc' = "loop"
                /\ steps' = [steps EXCEPT !.seed = @ + 1]
       ELSE /\ pc' = "raised"
            /\ UNCHANGED <<optimized_route, remaining_spots, selected_spots,
                           current_spot, steps>>
    /\ UNCHANGED <<spots_df, op, user_location, coords, distance, stats,
                   remaining_is_copy, time_ranking,
                   distance_ranking, scores, result, rank_calls>>

\* a loop body that scores by time efficiency alone
LoopRankTimeOnly ==
    /\ pc = "loop"
    /\ Len(remaining_spots) > 0
    /\ IF AllFound(remaining_spots) /\ DistanceRankingLookupsOk(current_spot, remaining_spots)
       THEN LET ranking_t == calculate_time_decrease_rate_ranking(remaining_spots)
                ranking_d == calculate_distance_ranking(current_spot, remaining_spots)
            IN  /\ time_ranking' = ranking_t
                /\ distance_ranking' = ranking_d
                /\ scores' = [spot \in {remaining_spots[i] : i \in 1..Len(remaining_spots)} |->
                                 ranking_t[spot]]
                /\ rank_calls' = rank_calls + 2
                /\ pc' = "loop_pick"
       ELSE /\ pc' = "raised"
            /\ UNCHANGED <<distance_ranking, time_ranking, scores, rank_calls>>
    /\ UNCHANGED <<spots_df, op, selected_spots, user_location, coords, distance, stats,
                   remaining_is_copy, remaining_spots,
                   optimized_route, current_spot, result, steps>>

\* lines 209-219: while remaining_spots, both rankings over what remains
LoopRank ==
    /\ pc = "loop"
    /\ Len(remaining_spots) > 0
    /\ IF AllFound(remaining_spots) /\ DistanceRankingLookupsOk(current_spot, remaining_spots)
       THEN LET ranking_t == calculate_time_decrease_rate_ranking(remaining_spots)
                ranking_d == calculate_distance_ranking(current_spot, remaining_spots)
            IN  /\ time_ranking' = ranking_t
                /\ distance_ranking' = ranking_d
                /\ scores' = [spot \in {remaining_spots[i] : i \in 1..Len(remaining_spots)} |->
                                 ranking_t[spot] + ranking_d[spot]]
                /\ rank_calls' = rank_calls + 2
                /\ pc' = "loop_pick"
       ELSE /\ pc' = "raised"
            /\ UNCHANGED <<distance_ranking, time_ranking, scores, rank_calls>>
    /\ UNCHANGED <<spots_df, op, selected_spots, user_location, coords, distance, stats,
                   remaining_is_copy, remaining_spots,
                   optimized_route, current_spot, result, steps>>

\* lines 222-225
LoopPick ==
    /\ pc = "loop_pick"
    /\ LET next_spot == FirstMin(remaining_spots, scores)
       IN  /\ optimized_route' = Append(optimized_route, next_spot)
           /\ remaining_spots' = Remove(remaining_spots, next_spot)
           /\ current_spot' = next_spot
    /\ selected_spots' = CallerListAfter(remaining_spots')
    /\ pc' = "loop"
    /\ UNCHANGED <<spots_df, op, user_location, coords, distance, stats,
                   remaining_is_copy, time_ranking,
                   distance_ranking, scores, result, rank_calls>>
    /\ steps' = [steps EXCEPT !.loop = @ + 1]

\* a return taken one iteration early (while len(remaining_spots) > 1)
ReturnEarly ==
    /\ pc = "loop"
    /\ Len(remaining_spots) <= 1
    /\ result' = optimized_route
    /\ pc' = "returned"
    /\ UNCHANGED <<spots_df, op, selected_spots, user_location, coords, distance, stats,
                   remaining_is_copy, remaining_spots,
                   optimized_route, current_spot, time_ranking, distance_ranking,
                   scores, rank_calls, steps>>

\* line 227, once the while condition is false
Return ==
    /\ pc = "loop"
    /\ Len(remaining_spots) = 0
    /\ result' = optimized_route
    /\ pc' = "returned"
    /\ UNCHANGED <<spots_df, op, selected_spots, user_location, coords, distance, stats,
                   remaining_is_copy, remaining_spots,
                   optimized_route, current_spot, time_ranking, distance_ranking,
                   scores, rank_calls, steps>>

Next ==
    \/ TimeRanking
    \/ DistanceRanking
    \/ DistanceRankingFromLocation
    \/ Distance
    \/ RouteStats
    \/ EarlyReturn
    \/ Begin
    \/ SeedRank
    \/ SeedPick
    \/ SeedByScore
    \/ LoopRank
    \/ LoopPick
    \/ Return

Spec == Init /\ [][Next]_vars

-----------------------------------------------------------------------------
(* The RouteOptimizer of src/streamlit_app.py, lines 41-186: the class the *)
(* page defines for itself.  Its optimize_route reads the catalog, the     *)
(* list and the location and nothing else, so a call is given here by what *)
(* it computes from them: the stops in the order chosen, and whether the   *)
(* call raised.                                                            *)

\* lines 47-77 (the constants of lines 65-67 are those of MeridianStep and
\* ParallelStep)
app_calculate_distance(lat1, lon1, lat2, lon2) ==
    LET P2 == lat1 + lat2
        Dy == lat1 - lat2
        Dx == lon1 - lon2
    IN  (Dy * MeridianStep(P2)) * (Dy * MeridianStep(P2))
            + (Dx * ParallelStep(P2)) * (Dx * ParallelStep(P2))

\* lines 79-94
app_calculate_time_decrease_rate_ranking(spots) ==
    LET time_efficiency == [i \in 1..Len(spots) |->
            <<spots[i], Key(spot_data(spots[i]).score, spot_data(spots[i]).dur)>>]
    IN  RankingOf(sorted(time_efficiency, TRUE))

\* lines 96-118
app_calculate_distance_ranking(current, remaining) ==
    IF current = None
    THEN [spot \in {remaining[i] : i \in 1..Len(remaining)} |-> 1]
    ELSE LET current_spot_data == spot_data(current)
             distances == [i \in 1..Len(remaining) |->
                 <<remaining[i],
                   Key(app_calculate_distance(current_spot_data.lat, current_spot_data.lon,
                                              spot_data(remaining[i]).lat,
                                              spot_data(remaining[i]).lon), 1)>>]
         IN  RankingOf(sorted(distances, FALSE))

\* lines 120-138
app_calculate_distance_ranking_from_location(lat, lon, remaining) ==
    LET distances == [i \in 1..Len(remaining) |->
            <<remaining[i],
              Key(app_calculate_distance(lat, lon, spot_data(remaining[i]).lat,
                                         spot_data(remaining[i]).lon), 1)>>]
    IN  RankingOf(sorted(distances, FALSE))

\* lines 173-186: the while loop entered with these values of the three
\* locals, up to the return or to the lookup that raises
RECURSIVE app_while(_, _, _)
app_while(remaining, route, current) ==
    IF Len(remaining) = 0 THEN [raised |-> FALSE, route |-> route]
    ELSE IF ~(AllFound(remaining) /\ (current = None \/ Found(current)))
    THEN [raised |-> TRUE, route |-> route]
    ELSE LET ranking_t == app_calculate_time_decrease_rate_ranking(remaining)
             ranking_d == app_calculate_distance_ranking(current, remaining)
             sums == [spot \in {remaining[i] : i \in 1..Len(remaining)} |->
                         ranking_t[spot] + ranking_d[spot]]
             next_spot == FirstMin(remaining, sums)
         IN  app_while(Remove(remaining, next_spot), Append(route, next_spot), next_spot)

\* lines 140-186
app_optimize_route(selected, location) ==
    IF Len(selected) <= 1 THEN [raised |-> FALSE, route |-> selected]
    ELSE IF ~AllFound(selected) THEN [raised |-> TRUE, route |-> <<>>]
    ELSE IF location # NoLocation
    THEN LET ranking_d == app_calculate_distance_ranking_from_location(
                               location.lat, location.lon, selected)
             ranking_t == app_calculate_time_decrease_rate_ranking(selected)
             sums == [spot \in {selected[i] : i \in 1..Len(selected)} |->
                         ranking_d[spot] + ranking_t[spot]]
             first_spot == FirstMin(selected, sums)
         IN  app_while(Remove(selected, first_spot), <<first_spot>>, first_spot)
    ELSE LET best_spot == FirstMax(selected,
                              [spot \in {selected[i] : i \in 1..Len(selected)} |->
                                  spot_data(spot).score])
         IN  app_while(Remove(selected, best_spot), <<best_spot>>, best_spot)

-----------------------------------------------------------------------------
(* Vocabulary of the properties *)

SetOf(spots) == {spots[i] : i \in 1..Len(spots)}

\* how often x occurs in a list
Count(spots, x) == Cardinality({i \in 1..Len(spots) : spots[i] = x})

\* the first index of the list at which x stands
IndexOf(spots, x) == CHOOSE i \in 1..Len(spots) : spots[i] = x /\ \A j \in 1..(i - 1) : spots[j] # x

N == Len(selected_spots)

Optimizing == op = "optimize_route"

\* optimize_route has made its first pick
Seeded == Optimizing /\ Len(optimized_route) >= 1

-----------------------------------------------------------------------------
(* C1: for a non-empty list of distinct identifiers all present in the     *)
(* catalog, with or without a user location, optimize_route does not fail, *)
(* and what it returns is a permutation of the input: the same length,     *)
(* every input identifier exactly once, no identifier from elsewhere.      *)
C1_RouteIsPermutation ==
    (Optimizing /\ N >= 1 /\ AllFound(selected_spots)) =>
        /\ pc # "raised"
        /\ pc = "returned" =>
              /\ Len(result) = N
              /\ \A x \in SetOf(selected_spots) : Count(result, x) = 1
              /\ SetOf(result) \subseteq SetOf(selected_spots)

\* a route of three stops from a user location that is not the input order
C1_Witness ==
    /\ Optimizing /\ pc = "returned" /\ AllFound(selected_spots)
    /\ user_location # NoLocation
    /\ N = 3
    /\ result # selected_spots

-----------------------------------------------------------------------------
(* C2 as stated: optimize_route never returns a route when an identifier   *)
(* of the selected list is absent from the catalog, whatever the size of   *)
(* the list, a single identifier included.                                 *)
C2_AbsentNeverReturns ==
    (Optimizing /\ ~AllFound(selected_spots)) => pc # "returned"

(* C2: with two or more selected identifiers of which one is absent from   *)
(* the catalog, optimize_route fails at the seeding step, on both seeding  *)
(* paths: it raises before any stop is chosen and returns nothing.  A list *)
(* of one identifier is handed back unchanged without a lookup, absent or  *)
(* not.                                                                    *)
C2_AbsentFailsFromTwo ==
    (Optimizing /\ ~AllFound(selected_spots)) =>
        /\ N >= 2 => /\ pc \in {"entry", "seed", "raised"}
                     /\ optimized_route = <<>>
                     /\ result = <<>>
        /\ N <= 1 => /\ pc \in {"entry", "returned"}
                     /\ pc = "returned" => result = selected_spots

\* the call has failed, with a location, on a list whose first spot is in
\* the catalog and whose last is not
C2_Witness ==
    /\ Optimizing /\ pc = "raised"
    /\ user_location # NoLocation
    /\ N = 3
    /\ Found(selected_spots[1]) /\ ~Found(selected_spots[3])

-----------------------------------------------------------------------------
(* C3: for a list of 0 or 1 identifiers optimize_route returns the list    *)
(* unchanged, with or without a user location, and computes no ranking     *)
(* (it never reaches the seeding code and never fails).                    *)
C3_ShortListUnchanged ==
    (Optimizing /\ N <= 1) =>
        /\ pc \in {"entry", "returned"}
        /\ rank_calls = 0
        /\ steps = [seed |-> 0, loop |-> 0]
        /\ pc = "returned" => result = selected_spots

\* a one-spot list returned when a location was supplied
C3_Witness ==
    /\ Optimizing /\ pc = "returned"
    /\ N = 1 /\ result = selected_spots
    /\ user_location # NoLocation

-----------------------------------------------------------------------------
\* two or more selected identifiers, all in the catalog
C4_Pre == Optimizing /\ N >= 2 /\ AllFound(selected_spots)

\* the statements optimize_route has yet to run, at most: two per remaining
\* candidate (rank, pick), the loop test, and the seeding before the loop
C4_Measure ==
    CASE pc = "entry"     -> 2 * N + 4
      [] pc = "seed"      -> 2 * N + 3
      [] pc = "seed_pick" -> 2 * N + 2
      [] pc = "loop"      -> 2 * Len(remaining_spots) + 1
      [] pc = "loop_pick" -> 2 * Len(remaining_spots)
      [] OTHER            -> 0

(* C4: for N >= 2 selected identifiers all present in the catalog,         *)
(* optimize_route always terminates (it never fails, and every statement   *)
(* it runs lowers a measure that is bounded below, so no run is endless),  *)
(* after exactly N picks: one at the seeding step and N-1 in the while     *)
(* loop.  It returns exactly when the remaining list is empty: never while *)
(* a candidate remains, and the remaining list is empty at the loop test   *)
(* only once N picks are made.                                             *)
C4_TerminatesAfterNSteps ==
    /\ [](C4_Pre =>
            /\ pc # "raised"
            /\ steps.seed <= 1
            /\ steps.seed + steps.loop <= N
            /\ pc = "returned" =>
                  /\ steps.seed = 1
                  /\ steps.loop = N - 1
                  /\ remaining_spots = <<>>
            /\ (pc = "loop" /\ remaining_spots = <<>>) => steps.seed + steps.loop = N
            /\ (pc = "loop" /\ remaining_spots # <<>>) => steps.seed + steps.loop < N)
    /\ [][C4_Pre => (C4_Measure' < C4_Measure /\ C4_Measure' >= 0)]_vars

\* a call on three present spots has returned after 1 + 2 picks
C4_Witness ==
    /\ C4_Pre /\ N = 3
    /\ pc = "returned"
    /\ steps = [seed |-> 1, loop |-> 2]

-----------------------------------------------------------------------------
(* C5: without a user location and with at least 2 candidates, the first   *)
(* stop has the maximum recommendation score of all candidates, and among  *)
(* the candidates of that score it is the first of the selected list.      *)
C5_FirstStopMaxScore ==
    (Seeded /\ user_location = NoLocation) =>
        LET first == optimized_route[1]
        IN  /\ first \in SetOf(selected_spots)
            /\ \A x \in SetOf(selected_spots) :
                   spot_data(x).score <= spot_data(first).score
            /\ \A i \in 1..N :
                   spot_data(selected_spots[i]).score = spot_data(first).score
                       => IndexOf(selected_spots, first) <= i

\* the first stop is the second of the list, ahead of the third of equal
\* score and of the first of lower score
C5_Witness ==
    /\ Seeded /\ user_location = NoLocation
    /\ N = 3
    /\ optimized_route[1] = selected_spots[2]
    /\ spot_data(selected_spots[3]).score = spot_data(selected_spots[2]).score
    /\ spot_data(selected_spots[1]).score < spot_data(selected_spots[2]).score

-----------------------------------------------------------------------------
\* proximity_rank[x] + efficiency_rank[x] for every candidate x, both rankings
\* over all candidates, proximity from the user location
C6_Sums ==
    LET prox == calculate_distance_ranking_from_location(
                    user_location.lat, user_location.lon, selected_spots)
        eff  == calculate_time_decrease_rate_ranking(selected_spots)
    IN  [x \in SetOf(selected_spots) |-> prox[x] + eff[x]]

-----------------------------------------------------------------------------
\* efficiency_rank[x] + proximity_rank[x] for every remaining candidate x,
\* both rankings over the candidates that remain, proximity from the last
\* stop of the route
C7_Sums ==
    LET eff  == calculate_time_decrease_rate_ranking(remaining_spots)
        prox == calculate_distance_ranking(optimized_route[Len(optimized_route)],
                                           remaining_spots)
    IN  [x \in SetOf(remaining_spots) |-> eff[x] + prox[x]]

(* C7: at every step after the first, both rankings are recomputed over    *)
(* exactly the remaining candidates, proximity from the most recently      *)
(* chosen stop; the stop appended minimises efficiency_rank +              *)
(* proximity_rank and is the first such candidate of the remaining list;   *)
(* it is removed from the remaining list, whose order is otherwise kept,   *)
(* and becomes the current stop.                                           *)
C7_NextStopMinSum ==
    /\ [](pc = "loop_pick" =>
            /\ current_spot = optimized_route[Len(optimized_route)]
            /\ DOMAIN time_ranking = SetOf(remaining_spots)
            /\ DOMAIN distance_ranking = SetOf(remaining_spots)
            /\ scores = C7_Sums)
    /\ [][pc = "loop_pick" =>
            LET next_spot == optimized_route'[Len(optimized_route')]
                sum == C7_Sums
            IN  /\ optimized_route' = Append(optimized_route, next_spot)
                /\ next_spot \in SetOf(remaining_spots)
                /\ \A x \in SetOf(remaining_spots) : sum[next_spot] <= sum[x]
                /\ \A i \in 1..Len(remaining_spots) :
                       sum[remaining_spots[i]] = sum[next_spot]
                           => IndexOf(remaining_spots, next_spot) <= i
                /\ remaining_spots' = SelectSeq(remaining_spots, LAMBDA x : x # next_spot)
                /\ current_spot' = next_spot]_vars

\* the second stop was not the head of the remaining list: the scores, not
\* the caller's order, decided it
C7_Witness ==
    /\ Optimizing /\ pc = "loop" /\ N = 3
    /\ steps.loop = 1
    /\ optimized_route[2] # SelectSeq(selected_spots, LAMBDA x : x # optimized_route[1])[1]

-----------------------------------------------------------------------------
\* a ranking uses each of the ranks 1..n once over exactly the spots of the list
IsRankingOver(ranking, spots) ==
    /\ DOMAIN ranking = SetOf(spots)
    /\ {ranking[x] : x \in SetOf(spots)} = 1..Len(spots)
    /\ \A x, y \in SetOf(spots) : x # y => ranking[x] # ranking[y]

\* recommendation_score / minimum_duration of x is strictly higher than of y
MoreEfficient(x, y) ==
    spot_data(x).score * spot_data(y).dur > spot_data(y).score * spot_data(x).dur

\* the list time_ranking was last computed over
C8_Ranked ==
    IF pc \in {"seed_pick", "loop_pick"} THEN remaining_spots ELSE selected_spots

(* C8: over a list of N distinct candidates of the catalog,                *)
(* calculate_time_decrease_rate_ranking returns a mapping whose keys are   *)
(* exactly the candidates and whose values are exactly 1..N, each once; a  *)
(* strictly higher recommendation_score / minimum_duration has a strictly  *)
(* smaller rank, and candidates of equal efficiency are ranked in their    *)
(* order in the list.                                                      *)
C8_TimeRanking ==
    (\/ op = "calculate_time_decrease_rate_ranking" /\ pc = "returned"
     \/ pc \in {"seed_pick", "loop_pick"}) =>
        LET spots == C8_Ranked
        IN  /\ IsRankingOver(time_ranking, spots)
            /\ \A i, j \in 1..Len(spots) :
                   /\ MoreEfficient(spots[i], spots[j])
                          => time_ranking[spots[i]] < time_ranking[spots[j]]
                   /\ (/\ i < j
                       /\ ~MoreEfficient(spots[i], spots[j])
                       /\ ~MoreEfficient(spots[j], spots[i]))
                          => time_ranking[spots[i]] < time_ranking[spots[j]]

\* a direct call on three spots: the head of the list is not ranked first,
\* and two spots tie in efficiency and keep their order
C8_Witness ==
    /\ op = "calculate_time_decrease_rate_ranking" /\ pc = "returned"
    /\ N = 3
    /\ time_ranking[selected_spots[1]] = 2
    /\ \E i, j \in 1..N :
           /\ i < j
           /\ ~MoreEfficient(selected_spots[i], selected_spots[j])
           /\ ~MoreEfficient(selected_spots[j], selected_spots[i])
           /\ time_ranking[selected_spots[i]] < time_ranking[selected_spots[j]]

-----------------------------------------------------------------------------
\* the distance the code computes from the reference of the last distance
\* ranking to spot x (the reference is a location or a spot)
C9_Distance(x) ==
    IF user_location # NoLocation
    THEN calculate_distance(user_location.lat, user_location.lon,
                            spot_data(x).lat, spot_data(x).lon)
    ELSE calculate_distance(spot_data(current_spot).lat, spot_data(current_spot).lon,
                            spot_data(x).lat, spot_data(x).lon)

(* C9: calculate_distance_ranking gives every candidate rank 1 when the    *)
(* reference spot is None (without a lookup, so it cannot fail); with a    *)
(* reference spot, or a location given to                                  *)
(* calculate_distance_ranking_from_location, the result maps exactly the N *)
(* candidates to the ranks 1..N, each used once, and a strictly smaller    *)
(* distance to the reference has a strictly smaller rank.                  *)
C9_DistanceRanking ==
    /\ (op = "calculate_distance_ranking" /\ current_spot = None) =>
          /\ pc # "raised"
          /\ pc = "returned" =>
                /\ DOMAIN distance_ranking = SetOf(selected_spots)
                /\ \A x \in SetOf(selected_spots) : distance_ranking[x] = 1
    /\ (/\ pc = "returned"
        /\ \/ op = "calculate_distance_ranking" /\ current_spot # None
           \/ op = "calculate_distance_ranking_from_location") =>
          /\ IsRankingOver(distance_ranking, selected_spots)
          /\ \A x, y \in SetOf(selected_spots) :
                 C9_Distance(x) < C9_Distance(y) => distance_ranking[x] < distance_ranking[y]

\* a direct call with a reference spot on three spots at three distances:
\* the head of the list is the farthest and is ranked last
C9_Witness ==
    /\ op = "calculate_distance_ranking" /\ pc = "returned"
    /\ current_spot # None
    /\ N = 3
    /\ distance_ranking[selected_spots[1]] = 3
    /\ C9_Distance(selected_spots[2]) < C9_Distance(selected_spots[1])
    /\ C9_Distance(selected_spots[3]) < C9_Distance(selected_spots[1])

-----------------------------------------------------------------------------
\* the catalog A(33.30,130.90,dur=60,score=5), B(33.31,130.91,dur=30,score=3),
\* C(33.29,130.89,dur=90,score=4), all three selected in some order, and a
\* start location at C's coordinates
C10_Scenario ==
    /\ Optimizing
    /\ spots_df = CatalogOf(UnusedRow)
    /\ N = 3 /\ SetOf(selected_spots) = {"A", "B", "C"}
    /\ user_location = [lat |-> 3329, lon |-> 13089]

-----------------------------------------------------------------------------
\* the catalog A(33.30,130.90,dur=60,score=5), B(33.31,130.91,dur=30,score=3),
\* C(33.29,130.89,dur=90,score=4), all three selected in some order, and no
\* start location
C11_Scenario ==
    /\ Optimizing
    /\ spots_df = CatalogOf(UnusedRow)
    /\ N = 3 /\ SetOf(selected_spots) = {"A", "B", "C"}
    /\ user_location = NoLocation

\* B and C in the order of the selected list: what remains once A is taken
C11_Rest == SelectSeq(selected_spots, LAMBDA x : x # "A")

\* efficiency_rank[x] + proximity_rank[x] over B and C, proximity from A
C11_Sums ==
    LET eff  == calculate_time_decrease_rate_ranking(C11_Rest)
        prox == calculate_distance_ranking("A", C11_Rest)
    IN  [x \in {"B", "C"} |-> eff[x] + prox[x]]

(* C11: in that scenario the first stop is A; over the remaining B and C   *)
(* the efficiency ranks are B = 1 and C = 2; the second stop is the one of *)
(* B and C with the lower sum of efficiency rank and proximity rank from   *)
(* A, and the other one is the last stop of the returned route.            *)
C11_EndToEnd ==
    C11_Scenario =>
        /\ pc # "raised"
        /\ Len(optimized_route) >= 1 => optimized_route[1] = "A"
        /\ (pc = "loop_pick" /\ Len(optimized_route) = 1) =>
               /\ remaining_spots = C11_Rest
               /\ time_ranking = [x \in {"B", "C"} |-> IF x = "B" THEN 1 ELSE 2]
        /\ Len(optimized_route) >= 2 =>
               LET second == optimized_route[2]
                   other == CHOOSE x \in {"B", "C"} : x # second
               IN  /\ second \in {"B", "C"}
                   /\ C11_Sums[second] < C11_Sums[other]
                   /\ pc = "returned" => result = <<"A", second, other>>

\* the route returned for the list C, B, A: B is the nearer to A and has the
\* lower sum, so the route is A, B, C
C11_Witness ==
    /\ C11_Scenario /\ pc = "returned"
    /\ selected_spots = <<"C", "B", "A">>
    /\ result = <<"A", "B", "C">>

-----------------------------------------------------------------------------
\* the sum of the minimum durations of the stops of a route
RECURSIVE C12_Duration(_)
C12_Duration(route) ==
    IF route = <<>> THEN 0
    ELSE spot_data(Head(route)).dur + C12_Duration(Tail(route))

\* the length in decimetres of the path through the stops of a route: one leg
\* for each pair of consecutive stops, none for a route of one stop
RECURSIVE C12_PathLength(_)
C12_PathLength(route) ==
    IF Len(route) <= 1 THEN 0
    ELSE Leg(route[1], route[2]) + C12_PathLength(Tail(route))

(* C12: for a route of N >= 1 stops all in the catalog,                    *)
(* calculate_route_stats does not fail and reports total_spots = N,        *)
(* total_time_minutes = the sum of the stops' minimum durations, and as    *)
(* total_distance_km the rounded sum of the N-1 distances between          *)
(* consecutive stops, with no leg after the last stop; for a route of one  *)
(* stop total_distance_km = 0 and total_spots = 1.                         *)
C12_RouteStats ==
    (op = "calculate_route_stats" /\ N >= 1 /\ AllFound(selected_spots)) =>
        /\ pc # "raised"
        /\ pc = "returned" =>
              /\ stats.total_spots = N
              /\ stats.total_time_minutes = C12_Duration(selected_spots)
              /\ stats.total_distance_km = Round(C12_PathLength(selected_spots), 100)
              /\ N = 1 => (stats.total_distance_km = 0 /\ stats.total_spots = 1)

\* the statistics of a route of three stops at three different places
C12_Witness ==
    /\ op = "calculate_route_stats" /\ pc = "returned"
    /\ N = 3
    /\ \A i, j \in 1..N : i # j => Leg(selected_spots[i], selected_spots[j]) > 0
    /\ stats.total_distance_km > 0

-----------------------------------------------------------------------------
(* C13: calculate_distance is symmetric: what a call on two points returns *)
(* is what the call with the two points exchanged returns; and the         *)
(* distance from a point to itself is 0.                                   *)
C13_DistanceSymmetric ==
    (op = "calculate_distance" /\ pc = "returned") =>
        /\ distance = calculate_distance(coords.lat2, coords.lon2, coords.lat1, coords.lon1)
        /\ (coords.lat1 = coords.lat2 /\ coords.lon1 = coords.lon2) => distance = 0

\* a distance between two points of different latitudes and longitudes
C13_Witness ==
    /\ op = "calculate_distance" /\ pc = "returned"
    /\ coords.lat1 < coords.lat2 /\ coords.lon1 # coords.lon2
    /\ distance > 0

-----------------------------------------------------------------------------
\* the distance the code computes from the user location to spot x
C14_FromLocation(x) ==
    calculate_distance(user_location.lat, user_location.lon,
                       spot_data(x).lat, spot_data(x).lon)

(* C14: when a user location is supplied and there are at least 2          *)
(* candidates, the first stop of the route is the candidate closest to the *)
(* user location: no candidate is nearer to it than the first stop (the    *)
(* candidate of proximity rank 1 is one of the nearest).                   *)
C14_FirstStopNearest ==
    (Seeded /\ user_location # NoLocation) =>
        \A x \in SetOf(selected_spots) :
            C14_FromLocation(optimized_route[1]) <= C14_FromLocation(x)

-----------------------------------------------------------------------------
\* identifier x leaves the remaining list and becomes the last stop of the
\* route and the current stop
C15_Moves(x) ==
    /\ x \in SetOf(remaining_spots)
    /\ optimized_route' = Append(optimized_route, x)
    /\ remaining_spots' = SelectSeq(remaining_spots, LAMBDA y : y # x)
    /\ current_spot' = x

(* C15: in every state of optimize_route after the seeding step, the route *)
(* built so far and the remaining list are disjoint and together hold      *)
(* exactly the input identifiers, len(route) + len(remaining) = N, and     *)
(* current_spot is the last element of the route, so it is not None when   *)
(* the loop computes the proximity ranking.  Every pick, the seeding pick  *)
(* included, moves exactly one identifier from the remaining list to the   *)
(* end of the route; no other statement changes either list.               *)
C15_RouteAndRemaining ==
    /\ [](Seeded =>
            /\ SetOf(optimized_route) \cap SetOf(remaining_spots) = {}
            /\ SetOf(optimized_route) \cup SetOf(remaining_spots) = SetOf(selected_spots)
            /\ Len(optimized_route) + Len(remaining_spots) = N
            /\ current_spot = optimized_route[Len(optimized_route)]
            /\ current_spot # None)
    /\ [][(Optimizing /\ pc' = "loop") => \E x \in SetOf(remaining_spots) : C15_Moves(x)]_vars
    /\ [][(Optimizing /\ pc \in {"seed", "seed_pick", "loop", "loop_pick"} /\ pc' # "loop") =>
             UNCHANGED <<optimized_route, remaining_spots, current_spot>>]_vars

\* two picks made on three candidates: one identifier remains
C15_Witness ==
    /\ Seeded /\ N = 3 /\ pc = "loop"
    /\ Len(optimized_route) = 2 /\ Len(remaining_spots) = 1
    /\ current_spot = optimized_route[2]

-----------------------------------------------------------------------------
(* C16: optimize_route and the ranking operations leave their inputs       *)
(* unchanged: no statement of a call, successful or failing, changes the   *)
(* catalog or the caller's selected list, so after the call both hold the  *)
(* same contents in the same order as before it; the list optimize_route   *)
(* removes from is a private copy.                                         *)
C16_InputsUnchanged ==
    /\ [][spots_df' = spots_df /\ selected_spots' = selected_spots]_vars
    /\ [](pc \in {"seed", "seed_pick", "loop", "loop_pick"} => remaining_is_copy)

\* a call without a location has returned a route of three stops: every
\* identifier was removed from the private list, none from the caller's
C16_Witness ==
    /\ Optimizing /\ pc = "returned"
    /\ user_location = NoLocation
    /\ Len(result) = 3 /\ remaining_spots = <<>>
    /\ Len(selected_spots) = 3

-----------------------------------------------------------------------------
\* what the optimize_route of src/streamlit_app.py does on the inputs of the
\* call
C17_App == app_optimize_route(selected_spots, user_location)

(* C17: the two RouteOptimizer definitions are equivalent: on the same     *)
(* catalog, selected list and present or absent user location, the stops   *)
(* the optimize_route of src/route_optimizer.py has chosen so far are the  *)
(* first stops the one of src/streamlit_app.py chooses, in the same order; *)
(* when the first returns, the second returns the same route; and the      *)
(* first fails exactly when the second fails.                              *)
C17_SameRoute ==
    Optimizing =>
        LET app == C17_App
        IN  /\ Len(optimized_route) <= Len(app.route)
            /\ optimized_route = SubSeq(app.route, 1, Len(optimized_route))
            /\ pc = "returned" => (~app.raised /\ result = app.route)
            /\ pc = "raised" => app.raised
            /\ app.raised => pc \in {"entry", "seed", "raised"}

\* both have returned the same route of three stops, which is not the
\* selected list
C17_Witness ==
    /\ Optimizing /\ pc = "returned"
    /\ N = 3
    /\ result = C17_App.route
    /\ result # selected_spots
    /\ result[3] # selected_spots[3]

=============================================================================
